---- MODULE Spec2Model ----
(***************************************************************************)
(* Trail Service API (app/main.py, app/user_service.py,                    *)
(* app/auth_service.py, app/config.py).                                    *)
(*                                                                         *)
(* The relational store (tables User and Trail) is shared by all request   *)
(* handlers.  Procs are the slots in which requests are served, one        *)
(* request per slot at a time.  A request advances one database statement  *)
(* at a time, so the statements of different requests interleave freely,   *)
(* as they do when several server processes work against one database.     *)
(* What a handler does before its first statement on the shared store      *)
(* (receiving the request, the call of the identity service) happens in    *)
(* the step of that statement.  A write and the commit that follows it     *)
(* are one step: the write becomes visible to the other connections at     *)
(* the commit.                                                             *)
(*                                                                         *)
(* Spec is the service with its requests interleaved, within one token     *)
(* lifetime.  SpecTime is the service over several token lifetimes, its    *)
(* requests served one after the other.  SpecDirectory is the User         *)
(* Directory alone, get_or_create_user called directly, one call after     *)
(* the other.  SpecCodec is the Token Codec and the guard of the protected *)
(* routes, given tokens that login issued and tokens that clients built.   *)
(* SpecFault is the service with statements of the store that fail.        *)
(* SpecUserTrails is the listing of a user's trails through the            *)
(* association table UserTrail.                                            *)
(***************************************************************************)
EXTENDS Integers, Sequences, FiniteSets, TLC

VARIABLES
    users,        \* table CW1.[User]: sequence of rows in insertion order
    trails,       \* table CW1.Trail: set of rows
    nextTrailId,  \* identity counter of CW1.Trail.TrailID
    userTrail,    \* table CW1.UserTrail: set of rows
    now,          \* wall clock, in minutes
    issued,       \* the bearer tokens login has handed out
    crafted,      \* the bearer tokens clients have built themselves
    txn,          \* txn[p]: how the request in slot p has ended the
                  \* transaction of its connection: "none", "commit", "rollback"
    nreq,         \* number of requests received so far
    pc,           \* pc[p]: position of the request in slot p in its handler
    req,          \* req[p]: the request in slot p
    cur,          \* cur[p]: current_user resolved by get_current_user
    tmp,          \* tmp[p]: new_id of create_user
    resp          \* resp[p]: the response to the request in slot p

store == <<users, trails, nextTrailId>>
vars == <<users, trails, nextTrailId, userTrail, now, issued, crafted, txn,
          nreq, pc, req, cur, tmp, resp>>

-----------------------------------------------------------------------------
(* Bounds of the model *)

MaxTime == 60
MaxRequests == 4
MaxCrafted == 1
MaxLinks == 1

Procs == {"p1", "p2"}

\* e-mail addresses are sequences of characters
Emails == { <<"a", "@", "x">>, <<"b", "@", "x">> }

PyNone == "None"

\* request bodies (TrailCreate): Description is optional
Bodies == { [TrailName |-> "n1", Description |-> PyNone],
            [TrailName |-> "n2", Description |-> "d1"] }

-----------------------------------------------------------------------------
(* Settings (config.py) *)

SECRET_KEY == "secret"
ACCESS_TOKEN_EXPIRE_MINUTES == 30

-----------------------------------------------------------------------------
(* Values *)

NoUser == [user_id |-> 0, name |-> <<>>, email |-> <<>>]
NoToken == [sub |-> <<>>, user_id |-> 0, name |-> <<>>, exp |-> 0, key |-> PyNone]
NoTrail == [TrailID |-> 0, TrailName |-> PyNone, Description |-> PyNone,
            DateCreated |-> 0, CreatedBy |-> 0]
NoAnswer == [status |-> 0, body |-> <<>>]
NoReq == [kind |-> "none", email |-> <<>>, answer |-> NoAnswer, flag |-> TRUE,
          token |-> NoToken, trail_id |-> 0, user_id |-> 0,
          TrailName |-> PyNone, Description |-> PyNone]
NoResp == [status |-> 0, detail |-> "", headers |-> PyNone, token |-> NoToken,
           user |-> NoUser, trail |-> NoTrail, rows |-> {}]

HTTPException(status_code, detail) ==
    [NoResp EXCEPT !.status = status_code, !.detail = detail]

\* headers={"WWW-Authenticate": "Bearer"}
Bearer == "WWW-Authenticate: Bearer"

\* HTTPException(status_code=..., detail=..., headers=...)
HTTPExceptionWithHeaders(status_code, detail, headers) ==
    [NoResp EXCEPT !.status = status_code, !.detail = detail,
                   !.headers = headers]

\* an exception no handler catches: the framework answers 500
Unhandled == HTTPException(500, "Internal Server Error")

SetMin(S) == CHOOSE x \in S : \A y \in S : x <= y
SetMax(S) == CHOOSE x \in S : \A y \in S : y <= x

-----------------------------------------------------------------------------
(* User Directory (user_service.py) *)

\* rows a "SELECT UserID, Name, Email ... WHERE Email = ?" matches
UserRows(U, email) ==
    { [user_id |-> U[i].user_id, name |-> U[i].name, email |-> U[i].email] :
        i \in { j \in 1..Len(U) : U[j].email = email } }

\* get_user_by_email: the outcomes of fetchone(); the order of the matching
\* rows is not specified by the query, so any of them may come first
get_user_by_email(U, email) ==
    IF UserRows(U, email) = {} THEN {NoUser} ELSE UserRows(U, email)

\* email.split('@')[0]
LocalPart(email) ==
    LET ats == { i \in 1..Len(email) : email[i] = "@" }
    IN  IF ats = {} THEN email ELSE SubSeq(email, 1, SetMin(ats) - 1)

\* mutant: the flag is ignored
NewUserNameAlwaysLocal(email, extract_name_from_email) == LocalPart(email)

\* name chosen by get_or_create_user for a new user
NewUserName(email, extract_name_from_email) ==
    IF extract_name_from_email THEN LocalPart(email) ELSE email

\* SELECT MAX(UserID); new_id = 1 if max_id is None else max_id + 1
NextUserId(U) ==
    IF Len(U) = 0 THEN 1 ELSE SetMax({ U[i].user_id : i \in 1..Len(U) }) + 1

\* INSERT INTO CW1.[User] (UserID, Name, Email, Password)
InsertUser(U, new_id, name, email) ==
    Append(U, [user_id |-> new_id, name |-> name, email |-> email,
               password |-> "external_auth"])

-----------------------------------------------------------------------------
(* Token Codec (auth_service.py) *)

\* jwt.encode(payload, key): a token is its claims and the key that signed it
jwt_encode(payload, key) ==
    [sub |-> payload.sub, user_id |-> payload.user_id, name |-> payload.name,
     exp |-> payload.exp, key |-> key]

create_access_token(data, expires_delta, t) ==
    jwt_encode([sub |-> data.sub, user_id |-> data.user_id,
                name |-> data.name, exp |-> t + expires_delta], SECRET_KEY)

\* mutant: the expiry is looked at before the signature
jwt_decode_expiry_first(token, key, t) ==
    IF token.exp <= t THEN "ExpiredSignatureError"
    ELSE IF token.key # key THEN "InvalidSignatureError"
    ELSE "payload"

\* jwt.decode(token, key): the signature is verified first, then the expiry;
\* the result is "payload" or the name of the exception raised
jwt_decode(token, key, t) ==
    IF token.key # key THEN "InvalidSignatureError"
    ELSE IF token.exp <= t THEN "ExpiredSignatureError"
    ELSE "payload"

\* decode_token: the payload, or the HTTPException raised in exc
decode_token(token, t) ==
    LET r == jwt_decode(token, SECRET_KEY, t)
    IN  IF r = "payload" THEN [payload |-> token, exc |-> NoResp]
        ELSE IF r = "ExpiredSignatureError"
        THEN [payload |-> NoToken,
              exc |-> HTTPExceptionWithHeaders(401, "Token has expired", Bearer)]
        ELSE [payload |-> NoToken,
              exc |-> HTTPExceptionWithHeaders(
                        401, "Could not validate credentials", Bearer)]

-----------------------------------------------------------------------------
(* External Credential Verifier (auth_service.py) *)

\* answers of the identity service; status 0 stands for a RequestException
VerifierAnswers ==
    { [status |-> 200, body |-> <<"Verified", "True">>],
      [status |-> 200, body |-> <<"Verified", "False">>],
      [status |-> 401, body |-> <<"Verified", "True">>],
      NoAnswer }

\* the result is "True" or "False", or "503" for the HTTPException raised
\* when the service cannot be reached
verify_plymouth_credentials(answer) ==
    IF answer.status = 0 THEN "503"
    ELSE IF answer.status = 200
         THEN (IF answer.body = <<"Verified", "True">> THEN "True" ELSE "False")
    ELSE "False"

-----------------------------------------------------------------------------
(* Trail Repository: the statements main.py sends to the store *)

\* EXEC CW1.AddNewTrail: the row gets the next identity value as TrailID
AddNewTrail(T, id, name, description, dateCreated, createdBy) ==
    T \cup { [TrailID |-> id, TrailName |-> name, Description |-> description,
              DateCreated |-> dateCreated, CreatedBy |-> createdBy] }

\* EXEC CW1.UpdateTrail
UpdateTrail(T, id, name, description) ==
    { IF r.TrailID = id
      THEN [r EXCEPT !.TrailName = name, !.Description = description]
      ELSE r : r \in T }

\* EXEC CW1.DeleteTrail
DeleteTrail(T, id) == { r \in T : r.TrailID # id }

\* SELECT ... FROM CW1.Trail WHERE TrailID = ?, fetchone()
SelectTrail(T, id) ==
    IF { r \in T : r.TrailID = id } = {} THEN {NoTrail}
    ELSE { r \in T : r.TrailID = id }

\* SELECT TOP 1 * FROM CW1.Trail ORDER BY TrailID DESC, fetchone()
SelectTopTrail(T) ==
    IF T = {} THEN NoTrail
    ELSE CHOOSE r \in T : \A s \in T : s.TrailID <= r.TrailID

-----------------------------------------------------------------------------
Init ==
    /\ users = <<>>
    /\ trails = {}
    /\ nextTrailId = 1
    /\ userTrail = {}
    /\ now = 0
    /\ issued = {}
    /\ crafted = {}
    /\ txn = [p \in Procs |-> "none"]
    /\ nreq = 0
    /\ pc = [p \in Procs |-> "idle"]
    /\ req = [p \in Procs |-> NoReq]
    /\ cur = [p \in Procs |-> NoUser]
    /\ tmp = [p \in Procs |-> 0]
    /\ resp = [p \in Procs |-> NoResp]

Set(f, p, v) == [f EXCEPT ![p] = v]

\* a request arrives in the free slot p
Receive(p, r) ==
    /\ pc[p] = "idle"
    /\ nreq < MaxRequests
    /\ nreq' = nreq + 1
    /\ req' = Set(req, p, r)

\* the handler goes on to its next statement
Goto(p, label) ==
    /\ pc' = Set(pc, p, label)
    /\ UNCHANGED resp

\* the handler returns or raises: the response is ready, its locals are gone
Respond(p, r) ==
    /\ resp' = Set(resp, p, r)
    /\ pc' = Set(pc, p, "done")
    /\ cur' = Set(cur, p, NoUser)
    /\ tmp' = Set(tmp, p, 0)

-----------------------------------------------------------------------------
(* POST /token *)

\* mutant: only the unreachable service ends the login
LoginGateUnreachableOnly(is_verified) ==
    IF is_verified = "503"
    THEN HTTPException(503, "Could not connect to authentication service")
    ELSE NoResp

\* what login does with is_verified (main.py 98-108)
LoginGate(is_verified) ==
    IF is_verified = "503"
    THEN HTTPException(503, "Could not connect to authentication service")
    ELSE IF is_verified # "True"
    THEN HTTPExceptionWithHeaders(401, "Incorrect email or password", Bearer)
    ELSE NoResp

\* login: the call of the external verifier and the check of its result
Login(p) ==
    /\ \E email \in Emails, answer \in VerifierAnswers :
         /\ Receive(p, [NoReq EXCEPT !.kind = "login", !.email = email,
                                     !.answer = answer])
         /\ LET r == LoginGate(verify_plymouth_credentials(answer))
            IN  IF r # NoResp THEN Respond(p, r)
                ELSE Goto(p, "goc_get") /\ UNCHANGED <<cur, tmp>>
    /\ UNCHANGED <<store, userTrail, now, issued, crafted, txn>>

\* mutant: the token's sub is the user's name
LoginReturnSubName(email, user, t) ==
    [NoResp EXCEPT
       !.status = 200,
       !.token = create_access_token(
                   [sub |-> user.name, user_id |-> user.user_id,
                    name |-> user.name],
                   ACCESS_TOKEN_EXPIRE_MINUTES, t),
       !.user = [user_id |-> user.user_id, name |-> user.name,
                 email |-> user.email]]

\* login, after get_or_create_user has returned user (main.py 114-133)
LoginReturn(email, user, t) ==
    [NoResp EXCEPT
       !.status = 200,
       !.token = create_access_token(
                   [sub |-> email, user_id |-> user.user_id, name |-> user.name],
                   ACCESS_TOKEN_EXPIRE_MINUTES, t),
       !.user = [user_id |-> user.user_id, name |-> user.name,
                 email |-> user.email]]

\* get_or_create_user returns user to its caller
UserResolved(p, user) ==
    IF req[p].kind = "login"
    THEN /\ Respond(p, LoginReturn(req[p].email, user, now))
         /\ issued' = issued \cup { LoginReturn(req[p].email, user, now).token }
    ELSE /\ Respond(p, [NoResp EXCEPT !.status = 200, !.user = user])
         /\ UNCHANGED issued

\* get_or_create_user: the lookup (user_service.py 64-66)
GocGet(p) ==
    /\ pc[p] = "goc_get"
    /\ \E user \in get_user_by_email(users, req[p].email) :
         IF user = NoUser
         THEN Goto(p, "cu_max") /\ UNCHANGED <<cur, tmp, issued>>
         ELSE UserResolved(p, user)
    /\ UNCHANGED <<store, userTrail, now, crafted, txn, nreq, req>>

\* create_user: SELECT MAX(UserID) (user_service.py 31-33)
CuMax(p) ==
    /\ pc[p] = "cu_max"
    /\ tmp' = Set(tmp, p, NextUserId(users))
    /\ Goto(p, "cu_insert")
    /\ UNCHANGED <<store, userTrail, now, issued, crafted,
                   txn, nreq, req, cur>>

\* create_user: INSERT, commit, return (user_service.py 36-49)
CuInsert(p) ==
    /\ pc[p] = "cu_insert"
    /\ LET name == NewUserName(req[p].email, req[p].flag)
       IN  /\ users' = InsertUser(users, tmp[p], name, req[p].email)
           /\ UserResolved(p, [user_id |-> tmp[p], name |-> name,
                               email |-> req[p].email])
    /\ txn' = Set(txn, p, "commit")
    /\ UNCHANGED <<trails, nextTrailId, userTrail, now, crafted, nreq, req>>

\* UserService.get_or_create_user called directly (user_service.py 57-71)
GetOrCreateUser(p) ==
    /\ \E email \in Emails, extract_name_from_email \in BOOLEAN :
         Receive(p, [NoReq EXCEPT !.kind = "get_or_create", !.email = email,
                                  !.flag = extract_name_from_email])
    /\ Goto(p, "goc_get")
    /\ UNCHANGED <<store, userTrail, now, issued, crafted, txn, cur, tmp>>

-----------------------------------------------------------------------------
(* Protected routes *)

credentials_exception ==
    HTTPExceptionWithHeaders(401, "Could not validate credentials", Bearer)

\* mutant: an HTTPException raised inside the try block is let through
GuardExceptHTTPThrough(exc) == exc

\* get_current_user, "except Exception: raise credentials_exception"
\* (main.py 165-166): whatever was raised inside the try block
GuardExcept(exc) == credentials_exception

\* get_current_user (main.py 142-166): the outcomes, each the user returned
\* or the exception raised in exc; a payload without "sub" has sub = <<>>
get_current_user(token, U, t) ==
    LET d == decode_token(token, t)
    IN  IF d.exc # NoResp
        THEN { [user |-> NoUser, exc |-> GuardExcept(d.exc)] }
        ELSE IF d.payload.sub = <<>>
        THEN { [user |-> NoUser, exc |-> GuardExcept(credentials_exception)] }
        ELSE { [user |-> user,
                exc |-> IF user = NoUser
                        THEN GuardExcept(credentials_exception)
                        ELSE NoResp] :
               user \in get_user_by_email(U, d.payload.sub) }

\* a request r for a protected route arrives: oauth2_scheme takes the bearer
\* token, get_current_user resolves it, the handler starts at entry
Protected(p, r, entry) ==
    \E token \in issued \cup crafted \cup {NoToken} :
      /\ Receive(p, [r EXCEPT !.token = token])
      /\ IF token = NoToken
         THEN Respond(p, HTTPExceptionWithHeaders(401, "Not authenticated",
                                                 Bearer))
         ELSE \E g \in get_current_user(token, users, now) :
                IF g.exc # NoResp
                THEN Respond(p, g.exc)
                ELSE /\ cur' = Set(cur, p, g.user)
                     /\ Goto(p, entry)
                     /\ UNCHANGED tmp

\* POST /api/trails arrives
CreateTrail(p) ==
    /\ \E b \in Bodies :
         Protected(p, [NoReq EXCEPT !.kind = "create",
                                    !.TrailName = b.TrailName,
                                    !.Description = b.Description], "ct_exec")
    /\ UNCHANGED <<store, userTrail, now, issued, crafted, txn>>

\* create_trail: EXEC AddNewTrail and commit (main.py 216-227)
CtExec(p) ==
    /\ pc[p] = "ct_exec"
    /\ trails' = AddNewTrail(trails, nextTrailId, req[p].TrailName,
                             req[p].Description, now, cur[p].user_id)
    /\ nextTrailId' = nextTrailId + 1
    /\ Goto(p, "ct_read")
    /\ txn' = Set(txn, p, "commit")
    /\ UNCHANGED <<users, userTrail, now, issued, crafted,
                   nreq, req, cur, tmp>>

\* dict(zip(columns, row)): a row of None is a TypeError nobody catches
RowResponse(row) ==
    IF row = NoTrail THEN Unhandled
    ELSE [NoResp EXCEPT !.status = 200, !.trail = row]

\* create_trail: read the new trail back (main.py 229-232)
CtRead(p) ==
    /\ pc[p] = "ct_read"
    /\ Respond(p, RowResponse(SelectTopTrail(trails)))
    /\ UNCHANGED <<store, userTrail, now, issued, crafted, txn, nreq, req>>

\* mutant: the ownership comparison is missing
OwnerCheckExistsOnly(existing_trail, current_user, detail) ==
    IF existing_trail = NoTrail
    THEN HTTPException(404, "Trail not found")
    ELSE NoResp

\* mutant: ownership is compared before existence is looked at
OwnerCheckOwnerFirst(existing_trail, current_user, detail) ==
    IF existing_trail.CreatedBy # current_user.user_id
    THEN HTTPException(403, detail)
    ELSE IF existing_trail = NoTrail
    THEN HTTPException(404, "Trail not found")
    ELSE NoResp

\* update_trail and delete_trail: existence and ownership
\* (main.py 249-252, 283-286)
OwnerCheck(existing_trail, current_user, detail) ==
    IF existing_trail = NoTrail
    THEN HTTPException(404, "Trail not found")
    ELSE IF existing_trail.CreatedBy # current_user.user_id
    THEN HTTPException(403, detail)
    ELSE NoResp

\* PUT /api/trails/{trail_id} arrives
UpdateTrailReq(p) ==
    /\ \E id \in 1..nextTrailId, b \in Bodies :
         Protected(p, [NoReq EXCEPT !.kind = "update", !.trail_id = id,
                                    !.TrailName = b.TrailName,
                                    !.Description = b.Description], "ut_check")
    /\ UNCHANGED <<store, userTrail, now, issued, crafted, txn>>

\* update_trail: SELECT CreatedBy and the checks (main.py 245-252)
UtCheck(p) ==
    /\ pc[p] = "ut_check"
    /\ \E existing_trail \in SelectTrail(trails, req[p].trail_id) :
         LET r == OwnerCheck(existing_trail, cur[p],
                             "Not authorized to update this trail")
         IN  IF r # NoResp THEN Respond(p, r)
             ELSE Goto(p, "ut_exec") /\ UNCHANGED <<cur, tmp>>
    /\ UNCHANGED <<store, userTrail, now, issued, crafted, txn, nreq, req>>

\* mutant: the update writes the row anew, as a creation would
UtExecRewrite(p) ==
    /\ pc[p] = "ut_exec"
    /\ trails' = AddNewTrail(DeleteTrail(trails, req[p].trail_id),
                             req[p].trail_id, req[p].TrailName,
                             req[p].Description, now, cur[p].user_id)
    /\ Goto(p, "ut_read")
    /\ txn' = Set(txn, p, "commit")
    /\ UNCHANGED <<users, nextTrailId, userTrail, now, issued, crafted,
                   nreq, req, cur, tmp>>

\* update_trail: EXEC UpdateTrail and commit (main.py 254-262)
UtExec(p) ==
    /\ pc[p] = "ut_exec"
    /\ trails' = UpdateTrail(trails, req[p].trail_id, req[p].TrailName,
                             req[p].Description)
    /\ Goto(p, "ut_read")
    /\ txn' = Set(txn, p, "commit")
    /\ UNCHANGED <<users, nextTrailId, userTrail, now, issued, crafted,
                   nreq, req, cur, tmp>>

\* update_trail: read the updated trail back (main.py 264-267)
UtRead(p) ==
    /\ pc[p] = "ut_read"
    /\ \E updated_trail \in SelectTrail(trails, req[p].trail_id) :
         Respond(p, RowResponse(updated_trail))
    /\ UNCHANGED <<store, userTrail, now, issued, crafted, txn, nreq, req>>

\* DELETE /api/trails/{trail_id} arrives
DeleteTrailReq(p) ==
    /\ \E id \in 1..nextTrailId :
         Protected(p, [NoReq EXCEPT !.kind = "delete", !.trail_id = id],
                   "dt_check")
    /\ UNCHANGED <<store, userTrail, now, issued, crafted, txn>>

\* delete_trail: SELECT CreatedBy and the checks (main.py 279-286)
DtCheck(p) ==
    /\ pc[p] = "dt_check"
    /\ \E existing_trail \in SelectTrail(trails, req[p].trail_id) :
         LET r == OwnerCheck(existing_trail, cur[p],
                             "Not authorized to delete this trail")
         IN  IF r # NoResp THEN Respond(p, r)
             ELSE Goto(p, "dt_exec") /\ UNCHANGED <<cur, tmp>>
    /\ UNCHANGED <<store, userTrail, now, issued, crafted, txn, nreq, req>>

\* delete_trail: EXEC DeleteTrail, commit, return (main.py 288-292)
DtExec(p) ==
    /\ pc[p] = "dt_exec"
    /\ trails' = DeleteTrail(trails, req[p].trail_id)
    /\ Respond(p, [NoResp EXCEPT !.status = 200,
                                 !.detail = "Trail deleted successfully"])
    /\ txn' = Set(txn, p, "commit")
    /\ UNCHANGED <<users, nextTrailId, userTrail, now, issued,
                   crafted, nreq, req>>

-----------------------------------------------------------------------------
(* Public routes *)

\* mutant: the row is not looked at before it is converted
GetTrailReturnUnchecked(trail) ==
    IF trail = NoTrail THEN Unhandled
    ELSE [NoResp EXCEPT !.status = 200, !.trail = trail]

\* get_trail: what it does with the row fetched (main.py 203-206)
GetTrailReturn(trail) ==
    IF trail = NoTrail THEN HTTPException(404, "Trail not found")
    ELSE [NoResp EXCEPT !.status = 200, !.trail = trail]

\* GET /api/trails/{trail_id} (main.py 196-206): the route depends on get_db
\* only, a bearer token the request carries is not looked at
GetTrail(p) ==
    /\ \E id \in 1..nextTrailId, token \in issued \cup crafted \cup {NoToken} :
         /\ Receive(p, [NoReq EXCEPT !.kind = "get", !.trail_id = id,
                                     !.token = token])
         /\ \E trail \in SelectTrail(trails, id) :
              Respond(p, GetTrailReturn(trail))
    /\ UNCHANGED <<store, userTrail, now, issued, crafted, txn>>

\* GET /api/trails (main.py 187-193)
GetTrails(p) ==
    /\ Receive(p, [NoReq EXCEPT !.kind = "list"])
    /\ Respond(p, [NoResp EXCEPT !.status = 200, !.rows = trails])
    /\ UNCHANGED <<store, userTrail, now, issued, crafted, txn>>

-----------------------------------------------------------------------------
\* the response has been sent: the slot is free again
Sent(p) ==
    /\ pc[p] = "done"
    /\ pc' = Set(pc, p, "idle")
    /\ req' = Set(req, p, NoReq)
    /\ resp' = Set(resp, p, NoResp)
    /\ txn' = Set(txn, p, "none")
    /\ UNCHANGED <<store, userTrail, now, issued, crafted, nreq, cur, tmp>>

\* time passes, one token lifetime at a time
Tick ==
    /\ now + ACCESS_TOKEN_EXPIRE_MINUTES <= MaxTime
    /\ now' = now + ACCESS_TOKEN_EXPIRE_MINUTES
    /\ UNCHANGED <<store, userTrail, issued, crafted, txn, nreq, pc, req, cur,
                   tmp, resp>>

\* the steps of a request that is being served
Serve(p) ==
    \/ GocGet(p) \/ CuMax(p) \/ CuInsert(p)
    \/ CtExec(p) \/ CtRead(p)
    \/ UtCheck(p) \/ UtExec(p) \/ UtRead(p)
    \/ DtCheck(p) \/ DtExec(p)
    \/ Sent(p)

\* a request of the HTTP surface arrives and is taken up
Arrive(p) ==
    \/ Login(p) \/ CreateTrail(p) \/ UpdateTrailReq(p) \/ DeleteTrailReq(p)
    \/ GetTrail(p) \/ GetTrails(p)

Next == \E p \in Procs : Arrive(p) \/ Serve(p)

Spec == Init /\ [][Next]_vars

\* no other request is being served
Alone(p) == \A q \in Procs \ {p} : pc[q] = "idle"

NextTime ==
    \/ Tick
    \/ \E p \in Procs : Alone(p) /\ Login(p)
    \/ \E p \in Procs : Alone(p) /\ CreateTrail(p)
    \/ \E p \in Procs : Alone(p) /\ UpdateTrailReq(p)
    \/ \E p \in Procs : Alone(p) /\ DeleteTrailReq(p)
    \/ \E p \in Procs : Alone(p) /\ GetTrail(p)
    \/ \E p \in Procs : Alone(p) /\ GetTrails(p)
    \/ \E p \in Procs : Serve(p)

SpecTime == Init /\ [][NextTime]_vars

NextDirectory ==
    \/ \E p \in Procs : Alone(p) /\ GetOrCreateUser(p)
    \/ \E p \in Procs : GocGet(p) \/ CuMax(p) \/ CuInsert(p) \/ Sent(p)

SpecDirectory == Init /\ [][NextDirectory]_vars

-----------------------------------------------------------------------------
(* Token Codec and protected-route guard, called with any bearer token *)

\* a client that knows the secret builds a token with create_access_token,
\* as the fixture auth_headers of the tests does: any subject or none
Craft ==
    /\ Cardinality(crafted) < MaxCrafted
    /\ \E sub \in Emails \cup {<<>>} :
         crafted' = crafted \cup
           { create_access_token([sub |-> sub, user_id |-> 1, name |-> <<>>],
                                 ACCESS_TOKEN_EXPIRE_MINUTES, now) }
    /\ crafted' # crafted
    /\ UNCHANGED <<store, userTrail, now, issued, txn, nreq,
                   pc, req, cur, tmp, resp>>

\* a client signs the claims of a user with a key of its own
Forge ==
    /\ Cardinality(crafted) < MaxCrafted
    /\ \E sub \in Emails :
         crafted' = crafted \cup
           { jwt_encode([sub |-> sub, user_id |-> 1, name |-> LocalPart(sub),
                         exp |-> now + ACCESS_TOKEN_EXPIRE_MINUTES],
                        "other-key") }
    /\ crafted' # crafted
    /\ UNCHANGED <<store, userTrail, now, issued, txn, nreq,
                   pc, req, cur, tmp, resp>>

\* AuthUtils.decode_token called directly (auth_service.py 56-73)
DecodeToken(p) ==
    /\ \E token \in issued \cup crafted :
         /\ Receive(p, [NoReq EXCEPT !.kind = "decode", !.token = token])
         /\ LET d == decode_token(token, now)
            IN  Respond(p, IF d.exc # NoResp THEN d.exc
                           ELSE [NoResp EXCEPT !.status = 200,
                                               !.token = d.payload])
    /\ UNCHANGED <<store, userTrail, now, issued, crafted, txn>>

\* GET /users/me arrives (main.py 169-172)
ReadUsersMe(p) ==
    /\ Protected(p, [NoReq EXCEPT !.kind = "me"], "me_return")
    /\ UNCHANGED <<store, userTrail, now, issued, crafted, txn>>

\* read_users_me: return current_user (main.py 173)
MeReturn(p) ==
    /\ pc[p] = "me_return"
    /\ Respond(p, [NoResp EXCEPT !.status = 200, !.user = cur[p]])
    /\ UNCHANGED <<store, userTrail, now, issued, crafted, txn, nreq, req>>

NextCodec ==
    \/ Tick
    \/ Craft
    \/ Forge
    \/ \E p \in Procs : Alone(p) /\ Login(p)
    \/ \E p \in Procs : Alone(p) /\ DecodeToken(p)
    \/ \E p \in Procs : Alone(p) /\ ReadUsersMe(p)
    \/ \E p \in Procs : MeReturn(p)
    \/ \E p \in Procs : GocGet(p) \/ CuMax(p) \/ CuInsert(p) \/ Sent(p)

SpecCodec == Init /\ [][NextCodec]_vars

-----------------------------------------------------------------------------
(* Statements that fail: the store raises pyodbc.Error.  A statement that  *)
(* fails changes nothing, and what a connection has not committed is never *)
(* seen by the others: get_db closes the connection when the request ends. *)

\* mutant: the handler answers as it does for credentials that were refused
LoginExceptUnauthorized(exc) ==
    HTTPExceptionWithHeaders(401, "Incorrect email or password", Bearer)

\* login, "except Exception" (main.py 135-139): whatever was raised inside
\* the try block becomes a 500 whose detail carries its message
LoginExcept(exc) == HTTPException(500, "Error during user management")

\* get_or_create_user raises exc to its caller
UserFailed(p, exc) ==
    /\ Respond(p, IF req[p].kind = "login" THEN LoginExcept(exc) ELSE exc)
    /\ UNCHANGED issued

\* get_user_by_email: the SELECT raises pyodbc.Error, which user_service
\* does not catch (user_service.py 11-16, 64)
GetUserFails(p) ==
    /\ pc[p] = "goc_get"
    /\ UserFailed(p, Unhandled)
    /\ UNCHANGED <<store, userTrail, now, crafted, txn, nreq, req>>

\* create_user: SELECT MAX, the INSERT or the commit raises pyodbc.Error;
\* "except pyodbc.Error": rollback, HTTPException 500 (user_service.py 50-55)
CreateUserFails(p) ==
    /\ pc[p] \in {"cu_max", "cu_insert"}
    /\ txn' = Set(txn, p, "rollback")
    /\ UserFailed(p, HTTPException(500, "Error creating user"))
    /\ UNCHANGED <<store, userTrail, now, crafted, nreq, req>>

\* create_trail, update_trail, delete_trail: a statement or the commit
\* raises pyodbc.Error; the handlers have no except clause and call no
\* rollback, the exception leaves them as it is (main.py 216-292)
TrailStatementFails(p) ==
    /\ pc[p] \in {"ct_exec", "ct_read", "ut_check", "ut_exec", "ut_read",
                  "dt_check", "dt_exec"}
    /\ Respond(p, Unhandled)
    /\ UNCHANGED <<store, userTrail, now, issued, crafted, txn, nreq, req>>

NextFault ==
    \/ \E p \in Procs : Alone(p) /\ Login(p)
    \/ \E p \in Procs : Alone(p) /\ CreateTrail(p)
    \/ \E p \in Procs : Alone(p) /\ UpdateTrailReq(p)
    \/ \E p \in Procs : Alone(p) /\ DeleteTrailReq(p)
    \/ \E p \in Procs : Alone(p) /\ GetTrail(p)
    \/ \E p \in Procs : Alone(p) /\ GetTrails(p)
    \/ \E p \in Procs : Serve(p)
    \/ \E p \in Procs : GetUserFails(p)
    \/ \E p \in Procs : CreateUserFails(p)
    \/ \E p \in Procs : TrailStatementFails(p)

SpecFault == Init /\ [][NextFault]_vars

-----------------------------------------------------------------------------
(* GET /api/users/{user_id}/trails *)

\* the association table is filled outside the service: a row (UserID,
\* TrailID) appears, for any user id and trail id
Associate ==
    /\ Cardinality(userTrail) < MaxLinks
    /\ \E u \in 1..NextUserId(users), t \in 1..nextTrailId :
         userTrail' = userTrail \cup { [UserID |-> u, TrailID |-> t] }
    /\ userTrail' # userTrail
    /\ UNCHANGED <<store, now, issued, crafted, txn, nreq, pc, req, cur,
                   tmp, resp>>

\* SELECT t.* FROM CW1.Trail t JOIN CW1.UserTrail ut
\* ON t.TrailID = ut.TrailID WHERE ut.UserID = ?
SelectUserTrails(T, UT, user_id) ==
    { t \in T : \E ut \in UT : ut.TrailID = t.TrailID /\ ut.UserID = user_id }

\* mutant: the comparison with the requester is missing
UserTrailsCheckNone(current_user, user_id) == NoResp

\* get_user_trails: the requester must be the user asked for (main.py 303-304)
UserTrailsCheck(current_user, user_id) ==
    IF current_user.user_id # user_id
    THEN HTTPException(403, "Not authorized to view these trails")
    ELSE NoResp

\* GET /api/users/{user_id}/trails arrives
GetUserTrails(p) ==
    /\ \E user_id \in 1..NextUserId(users) :
         Protected(p, [NoReq EXCEPT !.kind = "user_trails",
                                    !.user_id = user_id], "gut_check")
    /\ UNCHANGED <<store, userTrail, now, issued, crafted, txn>>

\* get_user_trails: the check of the requester (main.py 303-304)
GutCheck(p) ==
    /\ pc[p] = "gut_check"
    /\ LET r == UserTrailsCheck(cur[p], req[p].user_id)
       IN  IF r # NoResp THEN Respond(p, r)
           ELSE Goto(p, "gut_select") /\ UNCHANGED <<cur, tmp>>
    /\ UNCHANGED <<store, userTrail, now, issued, crafted, txn, nreq, req>>

\* get_user_trails: the SELECT and the response (main.py 306-315)
GutSelect(p) ==
    /\ pc[p] = "gut_select"
    /\ Respond(p, [NoResp EXCEPT
                     !.status = 200,
                     !.rows = SelectUserTrails(trails, userTrail,
                                               req[p].user_id)])
    /\ UNCHANGED <<store, userTrail, now, issued, crafted, txn, nreq, req>>

NextUserTrails ==
    \/ Associate
    \/ \E p \in Procs : Alone(p) /\ Login(p)
    \/ \E p \in Procs : Alone(p) /\ CreateTrail(p)
    \/ \E p \in Procs : Alone(p) /\ DeleteTrailReq(p)
    \/ \E p \in Procs : Alone(p) /\ GetUserTrails(p)
    \/ \E p \in Procs : GutCheck(p)
    \/ \E p \in Procs : GutSelect(p)
    \/ \E p \in Procs : GocGet(p) \/ CuMax(p) \/ CuInsert(p)
    \/ \E p \in Procs : CtExec(p) \/ CtRead(p)
    \/ \E p \in Procs : DtCheck(p) \/ DtExec(p)
    \/ \E p \in Procs : Sent(p)

SpecUserTrails == Init /\ [][NextUserTrails]_vars

-----------------------------------------------------------------------------
(* Properties *)

\* the identity service has verified the credentials: status 200 and the
\* body ["Verified", "True"]
Verified(answer) ==
    answer.status = 200 /\ answer.body = <<"Verified", "True">>

\* slot p takes a step
Moves(p) == pc'[p] # pc[p]

RowsOf(T, id) == { r \in T : r.TrailID = id }

\* C1: a step that changes or removes a stored trail is the EXEC step of an
\* update or delete request for that trail whose authenticated user_id is
\* the trail's CreatedBy; no request of another user ever changes or removes
\* it, whatever the interleaving.
C1_OnlyOwnerMutates ==
    [][\A r \in trails :
         r \notin trails' =>
           \E p \in Procs :
             /\ pc[p] \in {"ut_exec", "dt_exec"}
             /\ Moves(p)
             /\ req[p].trail_id = r.TrailID
             /\ cur[p].user_id = r.CreatedBy]_vars

\* C1 witness: an update by a user who is not the owner has been answered
\* 403 and the trail is still stored with other values than the request's.
C1_Witness ==
    \E p \in Procs, r \in trails :
      /\ pc[p] = "done"
      /\ req[p].kind = "update"
      /\ req[p].trail_id = r.TrailID
      /\ resp[p].status = 403
      /\ req[p].token.user_id # r.CreatedBy
      /\ r.TrailName # req[p].TrailName

\* C2: a trail keeps the CreatedBy and DateCreated it was given when it was
\* created: a row that enters the table has a TrailID never used before and
\* carries the creating request's user and the time of the call, and no
\* step changes these two columns of a stored row.
C2_OwnerAndDateKept ==
    [][/\ \A r \in trails : r.TrailID < nextTrailId
       /\ \A s \in trails' :
            IF RowsOf(trails, s.TrailID) = {}
            THEN /\ s.TrailID = nextTrailId
                 /\ s.DateCreated = now
                 /\ \E p \in Procs : /\ pc[p] = "ct_exec"
                                     /\ Moves(p)
                                     /\ s.CreatedBy = cur[p].user_id
            ELSE \A r \in RowsOf(trails, s.TrailID) :
                   /\ s.CreatedBy = r.CreatedBy
                   /\ s.DateCreated = r.DateCreated]_vars

\* C2 witness: an update has succeeded at a later time than the trail's
\* creation, and the trail carries the new name and the old timestamp.
C2_Witness ==
    \E p \in Procs, r \in trails :
      /\ pc[p] = "done"
      /\ req[p].kind = "update"
      /\ resp[p].status = 200
      /\ resp[p].trail = r
      /\ r.TrailName = req[p].TrailName
      /\ r.DateCreated < now

\* C3: the check of update and delete answers 404 when no trail has the
\* id, whoever asks, and 403 when the trail exists and the requester is not
\* its owner; only an owner of an existing trail goes on to the write; and
\* the step that answers 404 or 403 leaves the store as it was.
C3_NotFoundThenForbidden ==
    [][\A p \in Procs :
         /\ (pc[p] \in {"ut_check", "dt_check"} /\ Moves(p)) =>
              LET rows == RowsOf(trails, req[p].trail_id)
              IN  /\ rows = {} =>
                        resp'[p].status = 404 /\ pc'[p] = "done"
                  /\ (rows # {} /\ \A r \in rows : r.CreatedBy # cur[p].user_id) =>
                        resp'[p].status = 403 /\ pc'[p] = "done"
                  /\ (rows # {} /\ \A r \in rows : r.CreatedBy = cur[p].user_id) =>
                        pc'[p] \in {"ut_exec", "dt_exec"}
         /\ (/\ req'[p].kind \in {"update", "delete"}
             /\ resp'[p] # resp[p]
             /\ resp'[p].status \in {403, 404}) =>
              /\ pc[p] \in {"ut_check", "dt_check"}
              /\ UNCHANGED store]_vars

\* C3 witness: a delete of an existing trail by a user who is not its owner
\* has been answered 403 while the trail is still stored.
C3_Witness ==
    \E p \in Procs, r \in trails :
      /\ pc[p] = "done"
      /\ req[p].kind = "delete"
      /\ req[p].trail_id = r.TrailID
      /\ resp[p].status = 403

\* the users an e-mail address authenticates as
UserIdsOf(U, email) == { u.user_id : u \in UserRows(U, email) }

\* C4 (as claimed, the success it promises): an update that passes the
\* guard, the existence check and the ownership check is answered 200 with
\* the row of that trail, and a delete that passes them is answered 200 with
\* the trail gone from the table, so that a get of the id finds nothing and
\* the list of all trails does not hold it.
C4_OwnerWriteSucceeds ==
    \A p \in Procs :
      (pc[p] = "done" /\ resp[p].status \notin {401, 403, 404}) =>
        /\ req[p].kind = "update" =>
             /\ resp[p].status = 200
             /\ resp[p].trail.TrailID = req[p].trail_id
        /\ req[p].kind = "delete" =>
             /\ resp[p].status = 200
             /\ RowsOf(trails, req[p].trail_id) = {}

\* C5 (as claimed): no two rows of the User table share a user_id, and
\* every user_id is a positive integer.
C5_UserIdsUnique ==
    \A i, j \in 1..Len(users) :
      /\ users[i].user_id > 0
      /\ i # j => users[i].user_id # users[j].user_id

\* C6 (as claimed): the User table holds at most one row per e-mail address.
C6_OneRowPerEmail ==
    \A i, j \in 1..Len(users) : i # j => users[i].email # users[j].email

\* name is the part of email before its first '@'
IsLocalPart(name, email) ==
    /\ Len(name) < Len(email)
    /\ email[Len(name) + 1] = "@"
    /\ \A i \in 1..Len(name) : name[i] = email[i] /\ name[i] # "@"

\* C7: called one after the other, get_or_create_user on an e-mail address
\* without a row appends exactly one row, named by the part before '@' when
\* extract_name_from_email is set and by the whole address when it is not,
\* and returns it; on an address with a row it returns that one row,
\* whatever the flag, and leaves the table as it is; and no call changes or
\* removes a row.
C7_GetOrCreateIdempotent ==
    [][\A p \in Procs :
         LET email == req[p].email
             rows == UserRows(users, email)
         IN
         /\ \A i \in 1..Len(users) : i <= Len(users') /\ users'[i] = users[i]
         /\ (pc[p] = "goc_get" /\ Moves(p) /\ rows # {}) =>
              /\ users' = users
              /\ pc'[p] = "done"
              /\ rows = { resp'[p].user }
         /\ (pc[p] = "goc_get" /\ Moves(p) /\ rows = {}) =>
              /\ users' = users
              /\ pc'[p] = "cu_max"
         /\ (pc[p] = "cu_insert" /\ Moves(p)) =>
              /\ rows = {}
              /\ Len(users') = Len(users) + 1
              /\ pc'[p] = "done"
              /\ UserRows(users', email) = { resp'[p].user }
              /\ IF req[p].flag
                 THEN IsLocalPart(resp'[p].user.name, email)
                 ELSE resp'[p].user.name = email]_vars

\* C7 witness: a call with extract_name_from_email unset, on an address
\* whose row an earlier call made with the flag set, has returned that row:
\* its name is the part before '@'.
C7_Witness ==
    \E p \in Procs :
      /\ pc[p] = "done"
      /\ req[p].kind = "get_or_create"
      /\ ~req[p].flag
      /\ resp[p].user.email = req[p].email
      /\ IsLocalPart(resp[p].user.name, req[p].email)
      /\ Len(users) = 2

\* C8 (as claimed): a create request that passes the guard is answered 200
\* with the trail it inserted: the submitted name and description, and the
\* authenticated requester as CreatedBy.
C8_CreateReturnsOwnTrail ==
    \A p \in Procs :
      (pc[p] = "done" /\ req[p].kind = "create" /\ resp[p].status # 401) =>
        /\ resp[p].status = 200
        /\ resp[p].trail.TrailName = req[p].TrailName
        /\ resp[p].trail.Description = req[p].Description
        /\ resp[p].trail.CreatedBy \in UserIdsOf(users, req[p].token.sub)

\* C9: a login whose credentials the identity service has verified is in
\* the flow towards its token and, once answered, is answered 200 with a
\* token signed with the configured key whose sub is the submitted e-mail
\* address and whose user_id and name are those of the user summary of the
\* response; the summary carries that address, and the User table holds a
\* row with it.
C9_VerifiedLoginGetsToken ==
    \A p \in Procs :
      (req[p].kind = "login" /\ Verified(req[p].answer)) =>
        /\ pc[p] \in {"goc_get", "cu_max", "cu_insert", "done"}
        /\ pc[p] = "done" =>
             /\ resp[p].status = 200
             /\ resp[p].token.key = SECRET_KEY
             /\ resp[p].token.sub = req[p].email
             /\ resp[p].token.user_id = resp[p].user.user_id
             /\ resp[p].token.name = resp[p].user.name
             /\ resp[p].user.email = req[p].email
             /\ resp[p].user.user_id > 0
             /\ UserRows(users, req[p].email) # {}

\* C9 witness: a verified login for an address that had no row has been
\* answered with a token, next to the row of another user.
C9_Witness ==
    \E p \in Procs :
      /\ pc[p] = "done"
      /\ req[p].kind = "login"
      /\ Verified(req[p].answer)
      /\ resp[p].token \in issued
      /\ Len(users) = 2
      /\ users[2].email = req[p].email
      /\ users[1].email # req[p].email

\* C10: a login whose credentials the identity service has not verified is
\* answered at once, 503 when the service could not be reached and 401
\* otherwise, without a token, and its step leaves the User table and the
\* issued tokens as they were; a row enters the User table, and a token is
\* issued, only in a step of a login that the service has verified.
C10_NothingUnlessVerified ==
    [][/\ \A p \in Procs :
            (req'[p].kind = "login" /\ ~Verified(req'[p].answer)) =>
              /\ pc'[p] = "done"
              /\ resp'[p].token = NoToken
              /\ resp'[p].user = NoUser
              /\ resp'[p].status = IF req'[p].answer = NoAnswer THEN 503 ELSE 401
              /\ pc[p] = "idle" => (users' = users /\ issued' = issued)
       /\ users' # users =>
            \E q \in Procs : /\ pc[q] = "cu_insert" /\ Moves(q)
                             /\ req[q].kind = "login"
                             /\ Verified(req[q].answer)
       /\ issued' # issued =>
            \E q \in Procs : /\ Moves(q)
                             /\ req[q].kind = "login"
                             /\ Verified(req[q].answer)
                             /\ issued' = issued \cup { resp'[q].token }]_vars

\* C10 witness: a login that the service answered with status 200 and a body
\* other than ["Verified", "True"] has been answered 401, and the table has
\* no row for its address.
C10_Witness ==
    \E p \in Procs :
      /\ pc[p] = "done"
      /\ req[p].kind = "login"
      /\ req[p].answer.status = 200
      /\ resp[p].status = 401
      /\ UserRows(users, req[p].email) = {}
      /\ Len(users) = 1

\* the detail of the HTTPException decode_token raises for a token past its
\* expiry (Expired) and for a token it cannot validate (Invalid)
Expired == "Token has expired"
Invalid == "Could not validate credentials"

\* C11: a call of decode_token succeeds only for a token signed with the
\* configured secret whose expiry has not passed, and then returns the
\* token's claims; for a token signed with the configured secret it fails
\* with Expired once the time exceeds the expiry, and a token that fails
\* with Expired fails with Expired at every later time; for a token signed
\* with another key it fails with Invalid, whatever its expiry.
C11_ValidateSignatureAndExpiry ==
    [][/\ \A p \in Procs :
            (pc[p] = "idle" /\ pc'[p] = "done" /\ req'[p].kind = "decode") =>
              LET token == req'[p].token
                  r == resp'[p]
              IN  /\ r.status \in {200, 401}
                  /\ r.status = 200 =>
                        /\ token.key = SECRET_KEY
                        /\ now <= token.exp
                        /\ r.token = token
                  /\ (token.key = SECRET_KEY /\ now > token.exp) =>
                        r.status = 401 /\ r.detail = Expired
                  /\ (token.key = SECRET_KEY /\ now < token.exp) =>
                        r.status = 200
                  /\ token.key # SECRET_KEY =>
                        r.status = 401 /\ r.detail = Invalid
       /\ \A token \in issued \cup crafted :
            decode_token(token, now).exc.detail = Expired =>
              decode_token(token, now').exc.detail = Expired]_vars

\* C11 witness: decode_token has answered Invalid for a token signed with
\* another key whose expiry has passed, while the same call on a token that
\* login issued is past its expiry too.
C11_Witness ==
    \E p \in Procs :
      /\ pc[p] = "done"
      /\ req[p].kind = "decode"
      /\ req[p].token.key # SECRET_KEY
      /\ req[p].token.exp < now
      /\ resp[p].detail = Invalid
      /\ \E token \in issued : token.exp < now

\* C12: a request for a protected route that carries a bearer token and is
\* not let through is answered with credentials_exception, one and the same
\* response (status 401, detail, headers) whatever the cause; and a token
\* past its expiry, a token signed with another key, a valid token without
\* subject and a valid token whose subject has no User row are all answered
\* so in the step that receives them.
C12_GuardFailuresAlike ==
    [][\A p \in Procs :
         (pc[p] = "idle" /\ req'[p].kind = "me" /\ req'[p].token # NoToken) =>
           LET token == req'[p].token
               valid == token.key = SECRET_KEY /\ now < token.exp
           IN  /\ pc'[p] = "done" => resp'[p] = credentials_exception
               /\ (\/ token.key = SECRET_KEY /\ token.exp < now
                   \/ token.key # SECRET_KEY
                   \/ valid /\ token.sub = <<>>
                   \/ valid /\ UserRows(users, token.sub) = {}) =>
                     /\ pc'[p] = "done"
                     /\ resp'[p] = credentials_exception]_vars

\* C12 witness: a request with a token that login issued and that is past
\* its expiry has been answered with credentials_exception, and the client
\* also holds a valid token whose subject has no User row.
C12_Witness ==
    \E p \in Procs :
      /\ pc[p] = "done"
      /\ req[p].kind = "me"
      /\ req[p].token \in issued
      /\ req[p].token.exp < now
      /\ resp[p] = credentials_exception
      /\ \E token \in crafted :
           /\ token.key = SECRET_KEY
           /\ now < token.exp
           /\ token.sub # <<>>
           /\ UserRows(users, token.sub) = {}

\* C13 (as claimed): a write operation that succeeds has committed, and one
\* whose statement or commit fails has rolled its transaction back when the
\* error leaves it, with the store as it was before the request's write.
C13_RollbackOnFailure ==
    [][\A p \in Procs :
         /\ (/\ pc[p] \in {"cu_max", "cu_insert", "ct_exec", "ut_exec", "dt_exec"}
             /\ pc'[p] = "done"
             /\ resp'[p].status = 500) =>
               /\ txn'[p] = "rollback"
               /\ UNCHANGED store
         /\ (/\ pc[p] \in {"cu_insert", "ct_exec", "ut_exec", "dt_exec"}
             /\ Moves(p)
             /\ ~(pc'[p] = "done" /\ resp'[p].status = 500)) =>
               txn'[p] = "commit"]_vars

\* a step of the login in slot p in which get_or_create_user fails: the
\* lookup returns no row of the address, or create_user ends without a row
FailsInUserStep(p) ==
    /\ pc'[p] = "done"
    /\ \/ pc[p] = "goc_get" /\ resp'[p].user \notin UserRows(users, req[p].email)
       \/ pc[p] = "cu_max"
       \/ pc[p] = "cu_insert" /\ users' = users

\* C18: a login that fails after the identity service has verified the
\* credentials, while the user is looked up or created, is answered 500
\* without a token and no token is issued; and every login that is answered
\* is answered 200 with a token, or 401, 503 or 500 without one, 500 only
\* when the credentials had been verified.
C18_LoginOutcomes ==
    [][\A p \in Procs :
         /\ (req[p].kind = "login" /\ FailsInUserStep(p)) =>
               /\ Verified(req[p].answer)
               /\ resp'[p].status = 500
               /\ resp'[p].token = NoToken
               /\ issued' = issued
         /\ (req'[p].kind = "login" /\ pc'[p] = "done") =>
               /\ resp'[p].status \in {200, 401, 503, 500}
               /\ resp'[p].status = 200 <=> resp'[p].token # NoToken
               /\ resp'[p].status = 200 => resp'[p].token \in issued'
               /\ resp'[p].status = 500 => Verified(req'[p].answer)]_vars

\* C18 witness: a verified login for a new address has been answered 500
\* after create_user failed and rolled back; the table holds the row of
\* another user only, and no token has been issued for the address.
C18_Witness ==
    \E p \in Procs :
      /\ pc[p] = "done"
      /\ req[p].kind = "login"
      /\ Verified(req[p].answer)
      /\ resp[p].status = 500
      /\ txn[p] = "rollback"
      /\ Len(users) = 1
      /\ UserRows(users, req[p].email) = {}
      /\ \A token \in issued : token.sub # req[p].email

\* the trails the association table links to user_id
LinkedTrails(user_id) ==
    { t \in trails :
        [UserID |-> user_id, TrailID |-> t.TrailID] \in userTrail }

\* C14: a request for the trails of user_id by an authenticated user with
\* another id is answered 403 by the check, it never comes to the SELECT
\* and its answer carries no trail; a request by the user with that id is
\* let through to the SELECT and answered 200 with exactly the trails that
\* rows of UserTrail link to user_id.
C14_OwnTrailsOnly ==
    [][\A p \in Procs :
         /\ (pc[p] = "gut_check" /\ Moves(p)) =>
               IF cur[p].user_id # req[p].user_id
               THEN /\ pc'[p] = "done"
                    /\ resp'[p].status = 403
                    /\ resp'[p].rows = {}
               ELSE pc'[p] = "gut_select"
         /\ pc'[p] = "gut_select" => cur'[p].user_id = req'[p].user_id
         /\ (pc[p] = "gut_select" /\ Moves(p)) =>
               /\ pc'[p] = "done"
               /\ resp'[p].status = 200
               /\ resp'[p].rows = LinkedTrails(req[p].user_id)]_vars

\* C14 witness: user 2 has asked for the trails of user 1 and been answered
\* 403, while a trail that user 2 created is linked to user 1.
C14_Witness ==
    \E p \in Procs :
      /\ pc[p] = "done"
      /\ req[p].kind = "user_trails"
      /\ req[p].user_id = 1
      /\ req[p].token.user_id = 2
      /\ resp[p].status = 403
      /\ \E t \in LinkedTrails(1) : t.CreatedBy = 2

C16_GetWithoutTokenUnauthorized ==
    \A p \in Procs :
      (pc[p] = "done" /\ req[p].kind = "get" /\ req[p].token = NoToken) =>
        resp[p].status = 401

\* C17 (as claimed): no step removes or changes a row of the User table,
\* rows are only added; and a user_id that a row carries is never carried
\* by a row with another e-mail address, then or later.
C17_UserRowsKept ==
    [][/\ Len(users') >= Len(users)
       /\ \A i \in 1..Len(users) : users'[i] = users[i]
       /\ \A i \in 1..Len(users), j \in 1..Len(users') :
            users'[j].user_id = users[i].user_id =>
              users'[j].email = users[i].email]_vars

\* C19 (as claimed): an update that has passed the guard is answered 200
\* with the row of its trail, which is stored at that moment, or 404 or 403;
\* it is never answered with an unhandled failure, also when a delete of
\* the trail commits between the update's check and its read-back.
C19_UpdateEndsAsSpecified ==
    \A p \in Procs :
      (pc[p] = "done" /\ req[p].kind = "update" /\ resp[p].status # 401) =>
        /\ resp[p].status \in {200, 403, 404}
        /\ resp[p].status = 200 => resp[p].trail.TrailID = req[p].trail_id

====
